---------------------------- MODULE Spec2Model ----------------------------
(***************************************************************************)
(* Admin meal controller (getAllMeals, createMeal, updateMeal, deleteMeal) *)
(* over the Meal collection.                                               *)
(*                                                                         *)
(* A JavaScript object is a function from the keys it carries to their     *)
(* values: a key that is absent reads as undefined.  A request is held in  *)
(* req with nothing sent (resp = NoResponse) until its handler runs; each  *)
(* handler performs at most one store operation (its single await), so a   *)
(* handler is one atomic step that ends by writing resp.                   *)
(*                                                                         *)
(* The store is taken to be reachable and identifiers well formed, so the  *)
(* handlers' 500 answers (a store call that throws anything but a          *)
(* ValidationError) do not occur.  A body is a plain object whose fields   *)
(* hold values of the field's type: update operators ($set, $inc) and      *)
(* null or non-numeric values for numeric fields are not among the inputs. *)
(***************************************************************************)
EXTENDS Integers, FiniteSets, Sequences, TLC

VARIABLES
    store,     \* the Meal collection: _id -> document
    nextId,    \* the next identifier the store hands out
    req,       \* the request being served (req.user, req.params, req.query, req.body)
    resp,      \* what res.status(..).json(..) sent for it, NoResponse before
    okDeletes, \* history: per identifier, how many deletes answered 200
    served     \* history: number of requests received so far

vars == <<store, nextId, req, resp, okDeletes, served>>

---------------------------------------------------------------------------
(* Bounds of the exploration *)

MaxIds == 2

MaxRequests == 4

---------------------------------------------------------------------------
(* Objects *)

Has(o, k) == k \in DOMAIN o

Drop(o, k) == [x \in DOMAIN o \ {k} |-> o[x]]

With(o, k, v) == [x \in DOMAIN o \cup {k} |-> IF x = k THEN v ELSE o[x]]

EmptyObject == [x \in {} |-> 0]

\* { ...base, ...o }
Overlay(base, o) ==
    [k \in DOMAIN base \cup DOMAIN o |-> IF Has(o, k) THEN o[k] ELSE base[k]]

NumericFields == <<"calories", "carbs", "protein", "fat", "weightGrams">>

NumericFieldSet == {NumericFields[i] : i \in DOMAIN NumericFields}

TextFields == {"name", "description", "image"}

\* interface CreateMealRequest
CreateFields == TextFields \cup NumericFieldSet

UserIds == {"u1", "u2"}

\* the user documents createdBy refers to
UserDoc(u) == [_id |-> u, name |-> "admin-" \o u, email |-> u \o "@example.com"]

NoRequest == [op |-> "none"]

NoResponse == [handler |-> "none"]

---------------------------------------------------------------------------
(* The Meal model and the store operations the handlers call *)

\* the paths of the Meal schema a client can address
SchemaFields == CreateFields \cup {"isCommon", "createdBy"}

\* schema validation on Meal.create: required paths
SchemaValid(doc) ==
    /\ Has(doc, "name") /\ doc.name # ""
    /\ \A f \in NumericFieldSet : Has(doc, f)

\* text index of the Meal schema
TextMatch(doc, term) == doc.name = term

\* Meal.create(doc): a new document under a fresh identifier
MealCreate(s, id, doc) == With(s, id, With(doc, "_id", id))

\* $set of the body's schema paths on the document
ApplyUpdate(doc, updateData) ==
    [k \in DOMAIN doc \cup (DOMAIN updateData \cap SchemaFields) |->
        IF k \in DOMAIN updateData \cap SchemaFields THEN updateData[k] ELSE doc[k]]

\* variant: the update runs with { upsert: true }
MealFindByIdAndUpdateUpsert(s, id, updateData) ==
    IF id \in DOMAIN s
        THEN [s EXCEPT ![id] = ApplyUpdate(@, updateData)]
        ELSE With(s, id, ApplyUpdate([_id |-> id], updateData))

\* Meal.findByIdAndUpdate(id, updateData, { new: true }): no upsert
MealFindByIdAndUpdate(s, id, updateData) ==
    IF id \in DOMAIN s
        THEN [s EXCEPT ![id] = ApplyUpdate(@, updateData)]
        ELSE s

\* variant: the document is looked up but not removed (findById)
MealFindByIdAndDeleteKeeps(s, id) == s

\* Meal.findByIdAndDelete(id)
MealFindByIdAndDelete(s, id) == Drop(s, id)

\* .populate('createdBy', 'name email')
Populate(doc) == [doc EXCEPT !.createdBy = UserDoc(@)]

\* variant: the filter starts as { isCommon: true }
MealFindCommonOnly(s, query) ==
    LET hit(id) == /\ s[id].isCommon
                   /\ IF Has(query, "search") /\ query.search # ""
                          THEN TextMatch(s[id], query.search)
                          ELSE TRUE
    IN  {Populate(s[id]) : id \in {i \in DOMAIN s : hit(i)}}

\* Meal.find(filter).populate(..)
MealFind(s, query) ==
    LET hit(id) == IF Has(query, "search") /\ query.search # ""
                       THEN TextMatch(s[id], query.search)
                       ELSE TRUE
    IN  {Populate(s[id]) : id \in {i \in DOMAIN s : hit(i)}}


---------------------------------------------------------------------------
(* Responses *)

Unauthorized(h) ==
    [handler |-> h, status |-> 401, error |-> "Unauthorized",
     message |-> "User not authenticated"]

ValidationFailed(h, msg) ==
    [handler |-> h, status |-> 400, error |-> "Validation error", message |-> msg]

NotFound(h) ==
    [handler |-> h, status |-> 404, error |-> "Not found", message |-> "Meal not found"]

Success(h, code, data) ==
    [handler |-> h, status |-> code, success |-> TRUE, data |-> data]

Deleted(h) ==
    [handler |-> h, status |-> 200, success |-> TRUE,
     message |-> "Meal deleted successfully"]

---------------------------------------------------------------------------
(* createMeal: validation and the document it builds *)

\* (the source's text, diacritics dropped)
RequiredMessage == "Name, calories, carbs, protein, fat va weightGrams la bat buoc"

NegativeMessage == "Nutrition values/weight cannot be negative"

SchemaMessage == "Meal validation failed"

\* variant: the numeric fields are tested like name, !calories || ... ,
\* so that 0 reads as missing
CreateMissingRequiredFalsy(body) ==
    \/ ~Has(body, "name")
    \/ body.name = ""
    \/ \E f \in NumericFieldSet : ~Has(body, f) \/ body[f] = 0

\* !name || calories === undefined || ... || weightGrams === undefined
CreateMissingRequired(body) ==
    \/ ~Has(body, "name")
    \/ body.name = ""
    \/ ~Has(body, "calories")
    \/ ~Has(body, "carbs")
    \/ ~Has(body, "protein")
    \/ ~Has(body, "fat")
    \/ ~Has(body, "weightGrams")

\* variant: the test leaves fat out
CreateHasNegativeNoFat(body) ==
    \/ body.calories < 0
    \/ body.carbs < 0
    \/ body.protein < 0
    \/ body.weightGrams < 0

\* calories < 0 || carbs < 0 || protein < 0 || fat < 0 || weightGrams < 0
CreateHasNegative(body) ==
    \/ body.calories < 0
    \/ body.carbs < 0
    \/ body.protein < 0
    \/ body.fat < 0
    \/ body.weightGrams < 0

\* variant: { isCommon: true, createdBy: req.user._id, ...req.body }
NewMealBodyLast(body, caller) ==
    Overlay([isCommon |-> TRUE, createdBy |-> caller],
            [k \in DOMAIN body \cap SchemaFields |-> body[k]])

\* the object handed to Meal.create: the destructured fields that are defined,
\* then isCommon and createdBy as the handler sets them
NewMeal(body, caller) ==
    LET given == DOMAIN body \cap CreateFields
    IN  [k \in given \cup {"isCommon", "createdBy"} |->
            IF k = "isCommon" THEN TRUE
            ELSE IF k = "createdBy" THEN caller
            ELSE body[k]]

---------------------------------------------------------------------------
(* updateMeal: validation *)

UpdateMessages ==
    <<"Calories cannot be negative", "Carbs cannot be negative",
      "Protein cannot be negative", "Fat cannot be negative",
      "Weight cannot be negative">>

\* updateData.f !== undefined && updateData.f < 0
UpdateFieldNegative(updateData, i) ==
    Has(updateData, NumericFields[i]) /\ updateData[NumericFields[i]] < 0

\* variant: the weightGrams check is missing
UpdateFirstViolationNoWeight(updateData) ==
    LET bad == {i \in 1..4 : UpdateFieldNegative(updateData, i)}
    IN  IF bad = {} THEN 0 ELSE CHOOSE i \in bad : \A j \in bad : i <= j

\* variant: the checks run without returning, the last message set wins
UpdateFirstViolationLast(updateData) ==
    LET bad == {i \in DOMAIN NumericFields : UpdateFieldNegative(updateData, i)}
    IN  IF bad = {} THEN 0 ELSE CHOOSE i \in bad : \A j \in bad : i >= j

\* the five checks in order, each returning at once: the index of the check
\* that answers 400, or 0 when all pass
UpdateFirstViolation(updateData) ==
    LET bad == {i \in DOMAIN NumericFields : UpdateFieldNegative(updateData, i)}
    IN  IF bad = {} THEN 0 ELSE CHOOSE i \in bad : \A j \in bad : i <= j

---------------------------------------------------------------------------
(* The handlers *)

Pending(h) == req.op = h /\ resp = NoResponse

Reply(r) ==
    /\ resp' = r
    /\ UNCHANGED req

getAllMeals ==
    /\ Pending("getAllMeals")
    /\ IF ~Has(req, "user")
           THEN Reply(Unauthorized("getAllMeals"))
           ELSE Reply(Success("getAllMeals", 200, MealFind(store, req)))
    /\ UNCHANGED <<store, nextId, okDeletes, served>>

createMeal ==
    /\ Pending("createMeal")
    /\ IF ~Has(req, "user")
           THEN /\ Reply(Unauthorized("createMeal"))
                /\ UNCHANGED <<store, nextId>>
       ELSE IF CreateMissingRequired(req.body)
           THEN /\ Reply(ValidationFailed("createMeal", RequiredMessage))
                /\ UNCHANGED <<store, nextId>>
       ELSE IF CreateHasNegative(req.body)
           THEN /\ Reply(ValidationFailed("createMeal", NegativeMessage))
                /\ UNCHANGED <<store, nextId>>
       ELSE IF ~SchemaValid(NewMeal(req.body, req.user))
           THEN /\ Reply(ValidationFailed("createMeal", SchemaMessage))
                /\ UNCHANGED <<store, nextId>>
       ELSE /\ store' = MealCreate(store, nextId, NewMeal(req.body, req.user))
            /\ nextId' = nextId + 1
            /\ Reply(Success("createMeal", 201, store'[nextId]))
    /\ UNCHANGED <<okDeletes, served>>

updateMeal ==
    /\ Pending("updateMeal")
    /\ IF ~Has(req, "user")
           THEN /\ Reply(Unauthorized("updateMeal"))
                /\ UNCHANGED store
       ELSE IF UpdateFirstViolation(req.body) # 0
           THEN /\ Reply(ValidationFailed("updateMeal",
                            UpdateMessages[UpdateFirstViolation(req.body)]))
                /\ UNCHANGED store
       ELSE /\ store' = MealFindByIdAndUpdate(store, req.id, req.body)
            /\ IF req.id \in DOMAIN store'
                   THEN Reply(Success("updateMeal", 200, store'[req.id]))
                   ELSE Reply(NotFound("updateMeal"))
    /\ UNCHANGED <<nextId, okDeletes, served>>

\* variant: deleteMeal without its req.user check
deleteMealUnchecked ==
    /\ Pending("deleteMeal")
    /\ store' = MealFindByIdAndDelete(store, req.id)
    /\ IF req.id \in DOMAIN store
           THEN /\ Reply(Deleted("deleteMeal"))
                /\ okDeletes' = [okDeletes EXCEPT ![req.id] = @ + 1]
           ELSE /\ Reply(NotFound("deleteMeal"))
                /\ UNCHANGED okDeletes
    /\ UNCHANGED <<nextId, served>>

deleteMeal ==
    /\ Pending("deleteMeal")
    /\ IF ~Has(req, "user")
           THEN /\ Reply(Unauthorized("deleteMeal"))
                /\ UNCHANGED <<store, okDeletes>>
       ELSE /\ store' = MealFindByIdAndDelete(store, req.id)
            /\ IF req.id \in DOMAIN store
                   THEN /\ Reply(Deleted("deleteMeal"))
                        /\ okDeletes' = [okDeletes EXCEPT ![req.id] = @ + 1]
                   ELSE /\ Reply(NotFound("deleteMeal"))
                        /\ UNCHANGED okDeletes
    /\ UNCHANGED <<nextId, served>>

---------------------------------------------------------------------------
(* The requests that arrive *)

RiceBody ==
    [name |-> "Rice", calories |-> 200, carbs |-> 45, protein |-> 4, fat |-> 0,
     weightGrams |-> 150]

One(f, v) == With(EmptyObject, f, v)

\* bodies of POST /: the example, and bodies that take each branch of createMeal
CreateBodies ==
    { RiceBody,
      Drop(RiceBody, "name"),
      With(RiceBody, "name", ""),
      Overlay(RiceBody, [carbs |-> -1, fat |-> -1]),
      Overlay(RiceBody, [description |-> "steamed", image |-> "rice.png", protein |-> 0]),
      Overlay(RiceBody, [isCommon |-> FALSE, createdBy |-> "u2"]) }
      \cup {Drop(RiceBody, f) : f \in NumericFieldSet}
      \cup {With(RiceBody, f, -1) : f \in NumericFieldSet}

\* bodies of PUT /:id: partial meals
UpdateBodies ==
    { EmptyObject,
      [carbs |-> -1, weightGrams |-> -1],
      [name |-> "Pho", protein |-> -1],
      [name |-> "Pho", description |-> "noodles"],
      One("createdBy", "u2"),
      One("isCommon", FALSE) }
      \cup {One(f, 7) : f \in NumericFieldSet}
      \cup {One(f, -1) : f \in NumericFieldSet}

Callers(r) == {r} \cup {With(r, "user", u) : u \in UserIds}

ListQueries ==
    {[op |-> "getAllMeals"]}
      \cup {[op |-> "getAllMeals", search |-> t] : t \in {"", "Pho"}}

Requests ==
    UNION {Callers(r) : r \in
        ListQueries
          \cup {[op |-> "createMeal", body |-> b] : b \in CreateBodies}
          \cup {[op |-> "updateMeal", id |-> i, body |-> b] :
                    i \in 1..MaxIds, b \in UpdateBodies}
          \cup {[op |-> "deleteMeal", id |-> i] : i \in 1..MaxIds}}

\* a request reaches its handler; the store hands out at most MaxIds identifiers
Receive ==
    /\ req = NoRequest \/ resp # NoResponse
    /\ served < MaxRequests
    /\ \E r \in Requests :
          /\ r.op = "createMeal" => nextId <= MaxIds
          /\ req' = r
    /\ resp' = NoResponse
    /\ served' = served + 1
    /\ UNCHANGED <<store, nextId, okDeletes>>

Init ==
    /\ store = EmptyObject
    /\ nextId = 1
    /\ req = NoRequest
    /\ resp = NoResponse
    /\ okDeletes = [i \in 1..MaxIds |-> 0]
    /\ served = 0

Next ==
    \/ Receive
    \/ getAllMeals
    \/ createMeal
    \/ updateMeal
    \/ deleteMeal

Spec == Init /\ [][Next]_vars

---------------------------------------------------------------------------
(* One request, of any body, against a store that earlier creates left *)

ProbeValues == {-1, 0, 7}

NumericParts == UNION {[D -> ProbeValues] : D \in SUBSET NumericFieldSet}

NameParts == {EmptyObject, One("name", ""), One("name", "Rice")}

OwnerParts == {EmptyObject, [isCommon |-> FALSE, createdBy |-> "u2"]}

CallerParts == {EmptyObject} \cup {One("user", u) : u \in UserIds}

\* POST / and PUT /:id, which carry a body
BodyTargets ==
    {[op |-> "createMeal"]} \cup {[op |-> "updateMeal", id |-> i] : i \in 1..MaxIds}

\* GET / and DELETE /:id
BodilessRequests ==
    UNION {Callers(r) : r \in
        ListQueries \cup {[op |-> "deleteMeal", id |-> i] : i \in 1..MaxIds}}

\* the store after u1 created the example meal
SeedStore == MealCreate(EmptyObject, 1, NewMeal(RiceBody, "u1"))

\* the store after u2 then created a second meal
SeedStoreTwo ==
    MealCreate(SeedStore, 2,
               NewMeal(Overlay(RiceBody, [name |-> "Pho", description |-> "noodles"]), "u2"))

InitProbe ==
    /\ \/ store = EmptyObject /\ nextId = 1
       \/ store = SeedStore /\ nextId = 2
       \/ store = SeedStoreTwo /\ nextId = 3
    /\ \/ req \in BodilessRequests
       \/ \E t \in BodyTargets, c \in CallerParts, n \in NumericParts,
             m \in NameParts, o \in OwnerParts :
               req = Overlay(Overlay(t, c), One("body", Overlay(Overlay(n, m), o)))
    /\ resp = NoResponse
    /\ okDeletes = [i \in 1..MaxIds |-> 0]
    /\ served = nextId

NextProbe ==
    \/ getAllMeals
    \/ createMeal
    \/ updateMeal
    \/ deleteMeal

SpecProbe == InitProbe /\ [][NextProbe]_vars

---------------------------------------------------------------------------
(* Properties *)

\* the step in which handler h answers the request it holds
Serving(h) == req.op = h /\ resp = NoResponse /\ resp' # NoResponse

\* handler h has answered the request in req
Answered(h) == req.op = h /\ resp # NoResponse

Authenticated == Has(req, "user")

Handlers == {"getAllMeals", "createMeal", "updateMeal", "deleteMeal"}

\* the numeric fields a body carries with a negative value
NegativeIn(body) == {f \in NumericFieldSet : Has(body, f) /\ body[f] < 0}

\* a body that createMeal must refuse
RefusedByCreate(body) ==
    \/ ~Has(body, "name")
    \/ body.name = ""
    \/ \E f \in NumericFieldSet : ~Has(body, f)
    \/ NegativeIn(body) # {}

\* C1: a request without req.user is answered 401 by every handler and
\* leaves every stored Meal as it was.
C1_Unauthenticated401 ==
    [][ \A h \in Handlers :
          (Serving(h) /\ ~Authenticated) =>
              (resp'.status = 401 /\ store' = store /\ nextId' = nextId) ]_vars

C1_Witness ==
    /\ Answered("deleteMeal")
    /\ ~Authenticated
    /\ req.id \in DOMAIN store
    /\ resp.status = 401

\* C2: createMeal by an authenticated caller answers 400 and adds no Meal
\* when name is missing or empty or a numeric field is missing or negative;
\* a numeric field equal to 0 is not missing.
C2_CreateRefusesInvalid ==
    [][ (Serving("createMeal") /\ Authenticated) =>
          /\ RefusedByCreate(req.body) => (resp'.status = 400 /\ store' = store)
          /\ ~RefusedByCreate(req.body) => resp'.status # 400 ]_vars

C2_Witness ==
    /\ Answered("createMeal")
    /\ Authenticated
    /\ resp.status = 400
    /\ \A f \in NumericFieldSet : Has(req.body, f)
    /\ Has(req.body, "name") /\ req.body.name # ""
    /\ NegativeIn(req.body) = {"fat"}

\* C3: createMeal by an authenticated caller with a valid body answers 201
\* and persists exactly one new Meal, with isCommon true and createdBy the
\* caller, whatever the body says about isCommon and createdBy.
C3_CreateStampsOwner ==
    [][ (Serving("createMeal") /\ Authenticated /\ ~RefusedByCreate(req.body)) =>
          /\ resp'.status = 201
          /\ DOMAIN store \subseteq DOMAIN store'
          /\ Cardinality(DOMAIN store' \ DOMAIN store) = 1
          /\ \A i \in DOMAIN store : store'[i] = store[i]
          /\ \A i \in DOMAIN store' \ DOMAIN store :
                /\ store'[i].isCommon = TRUE
                /\ store'[i].createdBy = req.user ]_vars

C3_Witness ==
    /\ Answered("createMeal")
    /\ Authenticated
    /\ resp.status = 201
    /\ Has(req.body, "createdBy") /\ req.body.createdBy # req.user
    /\ Has(req.body, "isCommon") /\ req.body.isCommon = FALSE
    /\ \E i \in DOMAIN store : store[i].createdBy = req.user /\ store[i] = resp.data

\* C4: updateMeal by an authenticated caller on an existing identifier with
\* a negative numeric field answers 400 and changes no stored Meal.
C4_UpdateRefusesNegative ==
    [][ (Serving("updateMeal") /\ Authenticated /\ req.id \in DOMAIN store
            /\ NegativeIn(req.body) # {}) =>
          (resp'.status = 400 /\ store' = store) ]_vars

C4_Witness ==
    /\ Answered("updateMeal")
    /\ Authenticated
    /\ req.id \in DOMAIN store
    /\ Cardinality(DOMAIN store) = 2
    /\ req.body = [calories |-> -1]
    /\ resp.status = 400

\* C5: updateMeal by an authenticated caller on an identifier that resolves
\* to no stored Meal, with a body that passes the sign checks, answers 404,
\* creates no Meal and changes none.
C5_UpdateMissingIs404 ==
    [][ (Serving("updateMeal") /\ Authenticated /\ req.id \notin DOMAIN store
            /\ NegativeIn(req.body) = {}) =>
          (resp'.status = 404 /\ store' = store) ]_vars

C5_Witness ==
    /\ Answered("updateMeal")
    /\ Authenticated
    /\ req.id \notin DOMAIN store
    /\ DOMAIN store # {}
    /\ DOMAIN req.body # {}
    /\ resp.status = 404

\* C6: deleteMeal by an authenticated caller on an existing identifier
\* answers 200 and removes the Meal; every later deleteMeal on it answers
\* 404, so no identifier is ever deleted with 200 twice.
C6_DeleteOnce ==
    [][ /\ (Serving("deleteMeal") /\ Authenticated /\ req.id \in DOMAIN store) =>
              (resp'.status = 200 /\ req.id \notin DOMAIN store')
        /\ (Serving("deleteMeal") /\ Authenticated /\ okDeletes[req.id] > 0) =>
              resp'.status = 404
        /\ \A i \in DOMAIN okDeletes : okDeletes'[i] <= 1 ]_vars

C6_Witness ==
    /\ Answered("deleteMeal")
    /\ Authenticated
    /\ okDeletes[req.id] = 1
    /\ resp.status = 404
    /\ DOMAIN store # {}

\* C7: the data of createMeal's 201 carries every submitted field of the
\* create request and the generated id, and a later getAllMeals without a
\* search term answers 200 with every created, not yet deleted id.
C7_RoundTrip ==
    /\ (Answered("createMeal") /\ resp.status = 201) =>
          /\ \A f \in DOMAIN req.body \cap CreateFields :
                Has(resp.data, f) /\ resp.data[f] = req.body[f]
          /\ resp.data._id = nextId - 1
    /\ (Answered("getAllMeals") /\ Authenticated /\ ~Has(req, "search")) =>
          /\ resp.status = 200
          /\ \A i \in 1..(nextId - 1) :
                okDeletes[i] = 0 => \E m \in resp.data : m._id = i

C7_Witness ==
    /\ Answered("getAllMeals")
    /\ Authenticated
    /\ ~Has(req, "search")
    /\ nextId = 3
    /\ okDeletes[1] = 1
    /\ {m._id : m \in resp.data} = {2}

\* C8: the createdBy of a stored Meal is the caller of the create request
\* that made it, and no later request changes it.
C8_CreatedByIsCreator ==
    [][ /\ \A i \in DOMAIN store \cap DOMAIN store' :
              store'[i].createdBy = store[i].createdBy
        /\ \A i \in DOMAIN store' \ DOMAIN store :
              store'[i].createdBy = req.user ]_vars

\* C9: every stored Meal has calories, carbs, protein, fat and weightGrams
\* at least 0.
C9_StoredNonNegative ==
    \A i \in DOMAIN store : \A f \in NumericFieldSet : store[i][f] >= 0

C9_Witness ==
    /\ Answered("updateMeal")
    /\ resp.status = 200
    /\ \E f \in NumericFieldSet : Has(req.body, f) /\ store[req.id][f] = req.body[f]
    /\ \E i \in DOMAIN store : i # req.id

\* the message updateMeal has for each numeric field
FieldError(f) ==
    CASE f = "calories" -> "Calories cannot be negative"
      [] f = "carbs" -> "Carbs cannot be negative"
      [] f = "protein" -> "Protein cannot be negative"
      [] f = "fat" -> "Fat cannot be negative"
      [] f = "weightGrams" -> "Weight cannot be negative"

FieldRank(f) == CHOOSE i \in DOMAIN NumericFields : NumericFields[i] = f

\* C10 as stated: in updateMeal's 400 every negative field of the body gets
\* its own named error.
C10_EveryFieldNamed ==
    (Answered("updateMeal") /\ Authenticated /\ NegativeIn(req.body) # {}) =>
        /\ resp.status = 400
        /\ \A f \in NegativeIn(req.body) : resp.message = FieldError(f)

\* C10 amended: updateMeal's 400 names one field only, the first negative
\* one in the order calories, carbs, protein, fat, weightGrams.
C10_FirstFieldNamed ==
    (Answered("updateMeal") /\ Authenticated /\ NegativeIn(req.body) # {}) =>
        /\ resp.status = 400
        /\ \E f \in NegativeIn(req.body) :
              /\ \A g \in NegativeIn(req.body) : FieldRank(f) <= FieldRank(g)
              /\ resp.message = FieldError(f)

C10_Witness ==
    /\ Answered("updateMeal")
    /\ Authenticated
    /\ NegativeIn(req.body) = {"carbs", "fat", "weightGrams"}
    /\ resp.status = 400
    /\ resp.message = "Carbs cannot be negative"

============================================================================
